---------------------------- MODULE Spec2Model ----------------------------
(***************************************************************************)
(* State-machine model of the tableauViz Lightning web component           *)
(* (TableauViz), of the selection relay it contains, and of the two        *)
(* components at the ends of the message channel: the subscriber           *)
(* (LmsSubscriberWebComponent) and the publisher                           *)
(* (LmsPublisherWebComponent).                                             *)
(*                                                                         *)
(* JavaScript values are tagged records, so that truthiness, strict        *)
(* equality and string conversion are computed as the language does.       *)
(* Strings that the code inspects (the viz URL, the user agent) are        *)
(* sequences of tokens; their concatenation is the concrete string.        *)
(***************************************************************************)
EXTENDS Integers, Sequences, FiniteSets

(***************************************************************************)
(* Bounds of the model.                                                    *)
(***************************************************************************)
MaxViz == 2
MaxEvents == 2
MaxMounts == 2
MaxClicks == 1

(***************************************************************************)
(* JavaScript values.                                                      *)
(***************************************************************************)
Undef == [t |-> "undefined"]
Null == [t |-> "null"]
Str(s) == [t |-> "string", s |-> s]
Num(n) == [t |-> "number", n |-> n]
Bool(b) == [t |-> "boolean", b |-> b]

Truthy(v) ==
    CASE v.t = "undefined" -> FALSE
      [] v.t = "null" -> FALSE
      [] v.t = "string" -> v.s # ""
      [] v.t = "number" -> v.n # 0
      [] v.t = "boolean" -> v.b
      [] OTHER -> TRUE

Digit(d) ==
    CASE d = 0 -> "0" [] d = 1 -> "1" [] d = 2 -> "2" [] d = 3 -> "3"
      [] d = 4 -> "4" [] d = 5 -> "5" [] d = 6 -> "6" [] d = 7 -> "7"
      [] d = 8 -> "8" [] d = 9 -> "9"

RECURSIVE NumToString(_)
NumToString(n) ==
    IF n < 10 THEN Digit(n) ELSE NumToString(n \div 10) \o Digit(n % 10)

\* String(v), as applied by template literals and URLSearchParams.append.
JsString(v) ==
    CASE v.t = "undefined" -> "undefined"
      [] v.t = "null" -> "null"
      [] v.t = "string" -> v.s
      [] v.t = "number" -> NumToString(v.n)
      [] v.t = "boolean" -> IF v.b THEN "true" ELSE "false"

(***************************************************************************)
(* Token strings: startsWith, indexOf and replace (first occurrence).      *)
(***************************************************************************)
StartsWith(s, p) ==
    /\ Len(p) <= Len(s)
    /\ SubSeq(s, 1, Len(p)) = p

\* 0 when p does not occur in s, else the first position where it does.
IndexOf(s, p) ==
    LET hits == {i \in 1..(Len(s) - Len(p) + 1) : SubSeq(s, i, i + Len(p) - 1) = p}
    IN  IF hits = {} THEN 0 ELSE CHOOSE i \in hits : \A j \in hits : i <= j

Replace(s, p, r) ==
    LET i == IndexOf(s, p)
    IN  IF i = 0 THEN s
        ELSE SubSeq(s, 1, i - 1) \o r \o SubSeq(s, i + Len(p), Len(s))

(***************************************************************************)
(* The URL constructor (platform), on token strings                        *)
(* <<scheme, "//", host, path tokens..., "#", fragment tokens...>>.        *)
(***************************************************************************)
SchemeTokens == {"https:", "http:", "HTTPS:"}

ToLowerScheme(tok) == IF tok = "HTTPS:" THEN "https:" ELSE tok

UrlOk(v) ==
    /\ v.t = "string"
    /\ Len(v.toks) >= 3
    /\ v.toks[1] \in SchemeTokens
    /\ v.toks[2] = "//"

\* new URL(v): the parsed URL object; only defined when UrlOk(v).
NewURL(v) ==
    LET tail == SubSeq(v.toks, 4, Len(v.toks))
        h == IndexOf(tail, <<"#">>)
        rawPath == IF h = 0 THEN tail ELSE SubSeq(tail, 1, h - 1)
        hash == IF h = 0 THEN <<>> ELSE SubSeq(tail, h, Len(tail))
    IN  [protocol |-> ToLowerScheme(v.toks[1]),
         host |-> v.toks[3],
         path |-> IF rawPath = <<>> THEN <<"/">> ELSE rawPath,
         params |-> <<>>,
         hash |-> hash]

Origin(u) == <<u.protocol, "//", u.host>>

\* The characters the application/x-www-form-urlencoded serializer leaves
\* as they are: ASCII letters and digits, "*", "-", "." and "_".
FormUnreserved ==
    {"a", "b", "c", "d", "e", "f", "g", "h", "i", "j", "k", "l", "m",
     "n", "o", "p", "q", "r", "s", "t", "u", "v", "w", "x", "y", "z",
     "A", "B", "C", "D", "E", "F", "G", "H", "I", "J", "K", "L", "M",
     "N", "O", "P", "Q", "R", "S", "T", "U", "V", "W", "X", "Y", "Z",
     "0", "1", "2", "3", "4", "5", "6", "7", "8", "9",
     "*", "-", ".", "_"}

\* One ASCII character as the serializer writes it: a space becomes "+",
\* every other character outside FormUnreserved its percent-encoded byte.
FormEncodeChar(c) ==
    IF c \in FormUnreserved THEN c
    ELSE CASE c = " " -> "+"
           [] c = "!" -> "%21" [] c = "\"" -> "%22" [] c = "#" -> "%23"
           [] c = "$" -> "%24" [] c = "%" -> "%25" [] c = "&" -> "%26"
           [] c = "'" -> "%27" [] c = "(" -> "%28" [] c = ")" -> "%29"
           [] c = "+" -> "%2B" [] c = "," -> "%2C" [] c = "/" -> "%2F"
           [] c = ":" -> "%3A" [] c = ";" -> "%3B" [] c = "<" -> "%3C"
           [] c = "=" -> "%3D" [] c = ">" -> "%3E" [] c = "?" -> "%3F"
           [] c = "@" -> "%40" [] c = "[" -> "%5B" [] c = "\\" -> "%5C"
           [] c = "]" -> "%5D" [] c = "^" -> "%5E" [] c = "{" -> "%7B"
           [] c = "|" -> "%7C" [] c = "}" -> "%7D" [] c = "~" -> "%7E"

\* A name or a value of the query, as URL.toString() writes it.
RECURSIVE FormUrlEncode(_)
FormUrlEncode(s) ==
    IF s = "" THEN ""
    ELSE FormEncodeChar(SubSeq(s, 1, 1)) \o FormUrlEncode(SubSeq(s, 2, Len(s)))

\* The serialized query: name=value pairs joined by "&", each name and
\* each value form-urlencoded.
RECURSIVE Query(_)
Query(ps) ==
    IF ps = <<>> THEN <<>>
    ELSE (IF Len(ps) = 1 THEN <<>> ELSE Query(SubSeq(ps, 1, Len(ps) - 1)) \o <<"&">>)
         \o <<FormUrlEncode(ps[Len(ps)][1]), "=", FormUrlEncode(ps[Len(ps)][2])>>

\* u.toString()
UrlToString(u) ==
    Origin(u) \o u.path
      \o (IF u.params = <<>> THEN <<>> ELSE <<"?">> \o Query(u.params))
      \o u.hash

\* searchParams.append(name, value): both are converted to strings.
SearchParamsAppend(u, name, value) ==
    [u EXCEPT !.params = Append(@, <<name, JsString(value)>>)]


(***************************************************************************)
(* Inputs: the values the host may give to the public properties, the      *)
(* user agents, the container widths and the field values of a record.     *)
(***************************************************************************)
UrlStr(toks) == [t |-> "string", toks |-> toks]

VizUrls ==
    { UrlStr(<<"https:", "//", "t.example", "/", "views", "/", "a">>),
      UrlStr(<<"HTTPS:", "//", "t.example", "/", "views", "/", "a">>),
      UrlStr(<<"http:", "//", "t.example", "/", "views", "/", "a">>),
      UrlStr(<<"https:", "//", "t.example", "/", "#", "/", "views", "/", "a">>),
      UrlStr(<<"t.example", "/", "views", "/", "a">>),
      Undef }

FilterOnRecordIdValues == {Bool(TRUE), Bool(FALSE)}
ObjectApiNames == {Str("Account"), Undef}
RecordIds == {Str("001x"), Undef}
Heights == {Num(600)}
TabAdvancedFilters == {Str("Region"), Undef}
SfAdvancedFilters == {Str("Account.Region"), Undef}
OffsetWidths == {800, 1024}

UserAgents ==
    { <<"Mozilla/5.0", " ", "Chrome">>,
      <<"SalesforceMobileSDK", "/", "9.0", " ", "iPhone", " ", "uid_", "a", "1", "-", "b", " ", "Hybrid">>,
      <<"SalesforceMobileSDK", "/", "9.0", " ", "Android">> }

Configs ==
    [vizUrl : VizUrls, showTabs : {Bool(TRUE)}, showToolbar : {Undef},
     filterOnRecordId : FilterOnRecordIdValues, objectApiName : ObjectApiNames,
     recordId : RecordIds, height : Heights,
     tabAdvancedFilter : TabAdvancedFilters, sfAdvancedFilter : SfAdvancedFilters]

\* Field values a record may hold for the source filter field.
FieldValues == {Str("West"), Str(""), Num(0), Null}

\* The reduced messages of a wire error.
ErrorTexts == {"", "Record not found"}

\* Outcomes of the random sources during one call of generateRandomDeviceId:
\* for each position of the template, the byte crypto.getRandomValues gives
\* and the value of floor(Math.random() * 4).
Draws(b, m, y) == [i \in 1..36 |-> [byte |-> (b + m * i) % 256, y |-> y]]

RandomSources == {Draws(0, 0, 0), Draws(171, 37, 3)}

VARIABLES
    cfg,                  \* the public (@api) properties of the TableauViz
    viz,                  \* this.viz
    advancedFilterValue,  \* this.advancedFilterValue
    errorMessage,         \* this.errorMessage
    isLibLoaded,          \* this.isLibLoaded
    userAgent,            \* window.navigator.userAgent
    offsetWidth,          \* containerDiv.offsetWidth
    pc,                   \* position in the component's lifecycle
    connected,            \* the component is in the document
    loadState,            \* the promise of loadScript
    templ,                \* the template the last render() returned
    containerHeight,      \* containerDiv.style.height
    vizCount,             \* tableau.Viz objects constructed so far
    listeners,            \* marks-selection listeners attached so far
    dispatched,           \* details of the mark_fired events dispatched
    published,            \* payloads published on the message channel
    subscription,         \* subscriber: this.subscription
    selectedTarget,       \* subscriber: this.selectedTarget
    subConnected,         \* subscriber: the component is in the document
    busSubs,              \* subscriptions active on the message channel
    mounts,               \* subscriber: connectedCallback calls so far
    clicks,               \* publisher: handleClick calls so far
    last                  \* the last callback run, its input and its outcome

vars ==
    <<cfg, viz, advancedFilterValue, errorMessage, isLibLoaded, userAgent,
      offsetWidth, pc, connected, loadState, templ, containerHeight, vizCount,
      listeners, dispatched, published, subscription, selectedTarget,
      subConnected, busSubs, mounts, clicks, last>>

vizVars ==
    <<viz, advancedFilterValue, errorMessage, isLibLoaded, templ,
      containerHeight, vizCount, listeners>>
relayVars == <<dispatched, published>>
subVars == <<subscription, subConnected, busSubs, mounts>>
envVars == <<cfg, userAgent, offsetWidth>>


(***************************************************************************)
(* TableauViz.  The methods are operators on the record `self`: the        *)
(* fields of the component and the part of the page they act on.           *)
(***************************************************************************)
Self ==
    [cfg |-> cfg, viz |-> viz, advancedFilterValue |-> advancedFilterValue,
     errorMessage |-> errorMessage, isLibLoaded |-> isLibLoaded,
     userAgent |-> userAgent, offsetWidth |-> offsetWidth, templ |-> templ,
     containerHeight |-> containerHeight, vizCount |-> vizCount,
     listeners |-> listeners, threw |-> FALSE]

\* render(): the template the component shows.
Render(self) ==
    IF Truthy(self.errorMessage) THEN "templateError" ELSE "templateMain"

\* UrlError without the check of the protocol.
UrlError_NoSchemeCheck(vizUrl) ==
    IF ~UrlOk(vizUrl) THEN [thrown |-> TRUE, message |-> Str("Invalid URL")]
    ELSE LET u == NewURL(vizUrl) IN
         IF StartsWith(Replace(UrlToString(u), Origin(u), <<>>), <<"/", "#", "/">>)
         THEN [thrown |-> TRUE, message |-> Str("Invalid URL.")]
         ELSE [thrown |-> FALSE, message |-> Undef]

\* The error thrown inside the try block of validateInputs, if any.
\* new URL throws a TypeError; the two checks throw an Error.
UrlError(vizUrl) ==
    IF ~UrlOk(vizUrl) THEN [thrown |-> TRUE, message |-> Str("Invalid URL")]
    ELSE LET u == NewURL(vizUrl) IN
         IF u.protocol # "https:"
         THEN [thrown |-> TRUE,
               message |-> Str("Invalid URL. Make sure the link to the Tableau view is using HTTPS.")]
         ELSE IF StartsWith(Replace(UrlToString(u), Origin(u), <<>>), <<"/", "#", "/">>)
         THEN [thrown |-> TRUE,
               message |-> Str("Invalid URL. Enter the link for a Tableau view. Click Copy Link to copy the URL from the Share View dialog box in Tableau. The link for the Tableau view must not include a '#' after the name of the server.")]
         ELSE [thrown |-> FALSE, message |-> Undef]

\* FilterPairMismatch with only the first of its two cases.
FilterPairMismatch_OneSided(c) ==
    Truthy(c.sfAdvancedFilter) /\ ~Truthy(c.tabAdvancedFilter)

FilterPairMismatch(c) ==
    \/ Truthy(c.sfAdvancedFilter) /\ ~Truthy(c.tabAdvancedFilter)
    \/ ~Truthy(c.sfAdvancedFilter) /\ Truthy(c.tabAdvancedFilter)

\* validateInputs(): the returned value and the component after the call.
ValidateInputs(self) ==
    LET e == UrlError(self.cfg.vizUrl) IN
    IF e.thrown
    THEN [ret |-> FALSE,
          self |-> [self EXCEPT !.errorMessage =
                       IF Truthy(e.message) THEN e.message ELSE Str("Invalid URL")]]
    ELSE IF FilterPairMismatch(self.cfg)
    THEN [ret |-> FALSE,
          self |-> [self EXCEPT !.errorMessage =
                       Str("Advanced filtering requires that you select both Tableau and Salesforce fields. The fields should represent corresponding data, for example, user or account identifiers.")]]
    ELSE [ret |-> TRUE, self |-> self]

\* SetVizDimensions with the height before the width.
SetVizDimensions_Swapped(self, vizToLoad) ==
    SearchParamsAppend(vizToLoad, ":size",
        Str(JsString(self.cfg.height) \o "," \o NumToString(self.offsetWidth)))

\* setVizDimensions(vizToLoad, containerDiv): the URL after the call.
SetVizDimensions(self, vizToLoad) ==
    SearchParamsAppend(vizToLoad, ":size",
        Str(NumToString(self.offsetWidth) \o "," \o JsString(self.cfg.height)))

\* SetVizFilters without the test of objectApiName.
SetVizFilters_NoObjectCheck(self, vizToLoad) ==
    LET c == self.cfg
        u1 == IF c.filterOnRecordId = Bool(TRUE)
              THEN SearchParamsAppend(vizToLoad,
                       JsString(c.objectApiName) \o " ID", c.recordId)
              ELSE vizToLoad
    IN  IF Truthy(c.tabAdvancedFilter) /\ Truthy(self.advancedFilterValue)
        THEN SearchParamsAppend(u1, JsString(c.tabAdvancedFilter),
                                self.advancedFilterValue)
        ELSE u1

\* setVizFilters(vizToLoad): the URL after the call.
SetVizFilters(self, vizToLoad) ==
    LET c == self.cfg
        u1 == IF c.filterOnRecordId = Bool(TRUE) /\ Truthy(c.objectApiName)
              THEN SearchParamsAppend(vizToLoad,
                       JsString(c.objectApiName) \o " ID", c.recordId)
              ELSE vizToLoad
    IN  IF Truthy(c.tabAdvancedFilter) /\ Truthy(self.advancedFilterValue)
        THEN SearchParamsAppend(u1, JsString(c.tabAdvancedFilter),
                                self.advancedFilterValue)
        ELSE u1


(***************************************************************************)
(* Mobile detection.  The regular expressions act on the tokens of the     *)
(* user agent; the tokens after "uid_" are single characters.              *)
(***************************************************************************)
WordChars == {"a", "b", "1", "_"}
DeviceIdChars == WordChars \cup {"|", "-"}
DeviceNames == {"iPhone", "Android", "iPad"}

RECURSIVE JoinTokens(_)
JoinTokens(toks) ==
    IF toks = <<>> THEN "" ELSE Head(toks) \o JoinTokens(Tail(toks))

\* The least member of a non-empty set of positions.
MinOf(S) == CHOOSE i \in S : \A j \in S : i <= j

HexDigit(d) ==
    CASE d < 10 -> Digit(d)
      [] d = 10 -> "a" [] d = 11 -> "b" [] d = 12 -> "c"
      [] d = 13 -> "d" [] d = 14 -> "e" [] d = 15 -> "f"

\* GetRandomSymbol that treats the symbol y as it treats x.
GetRandomSymbol_NoY(symbol, rnd) == HexDigit(rnd.byte % 16)

\* getRandomSymbol(symbol), for one draw of the random sources
GetRandomSymbol(symbol, rnd) ==
    IF symbol = "y" THEN <<"8", "9", "a", "b">>[rnd.y + 1]
    ELSE HexDigit(rnd.byte % 16)

DeviceIdTemplate ==
    <<"x", "x", "x", "x", "x", "x", "x", "x", "-", "x", "x", "x", "x", "-",
      "4", "x", "x", "x", "-", "y", "x", "x", "x", "-",
      "x", "x", "x", "x", "x", "x", "x", "x", "x", "x", "x", "x">>

\* The characters of the id: replace(/[xy]/g, getRandomSymbol) calls
\* getRandomSymbol once for each x and y of the template.
DeviceIdSymbols(rnd) ==
    [i \in 1..Len(DeviceIdTemplate) |->
        IF DeviceIdTemplate[i] \in {"x", "y"}
        THEN GetRandomSymbol(DeviceIdTemplate[i], rnd[i])
        ELSE DeviceIdTemplate[i]]

\* generateRandomDeviceId()
GenerateRandomDeviceId(rnd) == JoinTokens(DeviceIdSymbols(rnd))

\* deviceIdRegex.exec(userAgent): the captured group, or "" when null.
DeviceIdMatch(ua) ==
    LET starts == {i \in 1..(Len(ua) - 1) :
                      ua[i] = "uid_" /\ ua[i + 1] \in DeviceIdChars}
    IN  IF starts = {} THEN [matched |-> FALSE, group |-> ""]
        ELSE LET i == MinOf(starts)
                 ends == {j \in (i + 1)..Len(ua) :
                             /\ \A k \in (i + 1)..j : ua[k] \in DeviceIdChars
                             /\ (j = Len(ua) \/ ua[j + 1] \notin DeviceIdChars)}
             IN  [matched |-> TRUE,
                  group |-> JoinTokens(SubSeq(ua, i + 1, MinOf(ends)))]

\* deviceNameRegex.exec(userAgent)
DeviceNameMatch(ua) ==
    LET hits == {i \in 1..Len(ua) : ua[i] \in DeviceNames}
    IN  IF hits = {} THEN [matched |-> FALSE, group |-> ""]
        ELSE [matched |-> TRUE, group |-> ua[MinOf(hits)]]

\* The outcomes of the random sources that a call of checkForMobileApp
\* with this user agent can see: they are read only to generate an id.
RandomDraws(ua) ==
    IF (\E i \in 1..Len(ua) : ua[i] = "SalesforceMobileSDK") /\ ~DeviceIdMatch(ua).matched
    THEN RandomSources
    ELSE {Draws(0, 0, 0)}

\* CheckForMobileApp without the test of the marker.
CheckForMobileApp_NoMarkerTest(vizToLoad, ua, rnd) ==
    LET idm == DeviceIdMatch(ua)
        deviceId == IF ~idm.matched THEN GenerateRandomDeviceId(rnd)
                    ELSE idm.group
        nm == DeviceNameMatch(ua)
        deviceName == IF ~nm.matched THEN "SFMobileApp"
                      ELSE "SFMobileApp_" \o nm.group
        u1 == SearchParamsAppend(vizToLoad, ":use_rt", Str("y"))
        u2 == SearchParamsAppend(u1, ":client_id", Str("TableauVizLWC"))
        u3 == SearchParamsAppend(u2, ":device_id", Str(deviceId))
    IN  SearchParamsAppend(u3, ":device_name", Str(deviceName))

\* checkForMobileApp(vizToLoad, userAgent): the URL after the call.
CheckForMobileApp(vizToLoad, ua, rnd) ==
    IF ~(\E i \in 1..Len(ua) : ua[i] = "SalesforceMobileSDK") THEN vizToLoad
    ELSE LET idm == DeviceIdMatch(ua)
             deviceId == IF ~idm.matched THEN GenerateRandomDeviceId(rnd)
                         ELSE idm.group
             nm == DeviceNameMatch(ua)
             deviceName == IF ~nm.matched THEN "SFMobileApp"
                           ELSE "SFMobileApp_" \o nm.group
             u1 == SearchParamsAppend(vizToLoad, ":use_rt", Str("y"))
             u2 == SearchParamsAppend(u1, ":client_id", Str("TableauVizLWC"))
             u3 == SearchParamsAppend(u2, ":device_id", Str(deviceId))
         IN  SearchParamsAppend(u3, ":device_name", Str(deviceName))

(***************************************************************************)
(* renderViz() and the listener it attaches.                               *)
(***************************************************************************)
\* listenToMarksSelection(): one more listener, on the viz just made.
ListenToMarksSelection(self) ==
    [self EXCEPT !.listeners = @ + 1]

\* InstantiateViz with the filters set before the dimensions.
InstantiateViz_FiltersFirst(self, rnd) ==
    IF self.templ # "templateMain"
    THEN [self EXCEPT !.threw = TRUE]
    ELSE LET v0 == NewURL(self.cfg.vizUrl)
             v1 == SetVizFilters(self, v0)
             v2 == SetVizDimensions(self, v1)
             v3 == CheckForMobileApp(v2, self.userAgent, rnd)
             made == [self EXCEPT
                        !.containerHeight = Str(JsString(self.cfg.height) \o "px"),
                        !.viz = [t |-> "object",
                                 container |-> "div.tabVizPlaceholder",
                                 searchParams |-> v3.params,
                                 url |-> UrlToString(v3),
                                 options |-> [hideTabs |-> ~Truthy(self.cfg.showTabs),
                                              hideToolbar |-> ~Truthy(self.cfg.showToolbar),
                                              height |-> JsString(self.cfg.height) \o "px",
                                              width |-> "100%"]],
                        !.vizCount = @ + 1]
         IN  ListenToMarksSelection(made)

\* The steps of renderViz() after its three guards.
InstantiateViz(self, rnd) ==
    IF self.templ # "templateMain"
    THEN \* querySelector returned null: setVizDimensions throws a TypeError
         [self EXCEPT !.threw = TRUE]
    ELSE LET v0 == NewURL(self.cfg.vizUrl)
             v1 == SetVizDimensions(self, v0)
             v2 == SetVizFilters(self, v1)
             v3 == CheckForMobileApp(v2, self.userAgent, rnd)
             options == [hideTabs |-> ~Truthy(self.cfg.showTabs),
                         hideToolbar |-> ~Truthy(self.cfg.showToolbar),
                         height |-> JsString(self.cfg.height) \o "px",
                         width |-> "100%"]
             made == [self EXCEPT
                        !.containerHeight = Str(JsString(self.cfg.height) \o "px"),
                        !.viz = [t |-> "object",
                                 container |-> "div.tabVizPlaceholder",
                                 searchParams |-> v3.params,
                                 url |-> UrlToString(v3),
                                 options |-> options],
                        !.vizCount = @ + 1]
         IN  ListenToMarksSelection(made)

\* RenderViz without the wait for the advanced filter value.
RenderViz_NoFilterWait(self, rnd) ==
    LET v == ValidateInputs(self) IN
    IF ~v.ret \/ Truthy(v.self.errorMessage) THEN v.self
    ELSE IF ~v.self.isLibLoaded THEN v.self
    ELSE InstantiateViz(v.self, rnd)

\* RenderViz that halts on invalid inputs but not on an error message.
RenderViz_IgnoreError(self, rnd) ==
    LET v == ValidateInputs(self) IN
    IF ~v.ret THEN v.self
    ELSE IF ~v.self.isLibLoaded THEN v.self
    ELSE IF Truthy(v.self.cfg.sfAdvancedFilter) /\ v.self.advancedFilterValue = Undef
    THEN v.self
    ELSE InstantiateViz(v.self, rnd)

\* renderViz(): the component after the call.
RenderViz(self, rnd) ==
    LET v == ValidateInputs(self) IN
    IF ~v.ret \/ Truthy(v.self.errorMessage) THEN v.self
    ELSE IF ~v.self.isLibLoaded THEN v.self
    ELSE IF Truthy(v.self.cfg.sfAdvancedFilter) /\ v.self.advancedFilterValue = Undef
    THEN v.self
    ELSE InstantiateViz(v.self, rnd)


(***************************************************************************)
(* The selection relay: onMarksSelection and fireLwcMarkEvent, and the     *)
(* subscriber and publisher components on the same message channel.        *)
(***************************************************************************)
WorksheetNames == {"IBDaysOfBacklog (2)", "BPDaysOfBacklog", "FC.DOB", "Foo"}

\* A native selection event: whether getViz() and getWorksheet().getName()
\* return or throw, and the worksheet name returned.
MarksEvents == [getViz : {"ok", "throws"}, getName : {"ok", "throws"}, name : WorksheetNames]

\* What the platform does when called: dispatchEvent and publish return or throw.
Platforms == [dispatchEvent : {"ok", "throws"}, publish : {"ok", "throws"}]

\* RenameTarget with the second break missing: the case falls through.
RenameTarget_Fallthrough(name) ==
    CASE name = "IBDaysOfBacklog (2)" -> "Inbound"
      [] name = "BPDaysOfBacklog" -> "Fullcase"
      [] name = "FC.DOB" -> "Fullcase"
      [] OTHER -> name

\* The switch of onMarksSelection.
RenameTarget(name) ==
    CASE name = "IBDaysOfBacklog (2)" -> "Inbound"
      [] name = "BPDaysOfBacklog" -> "Breakpack"
      [] name = "FC.DOB" -> "Fullcase"
      [] OTHER -> name

Relay == [dispatched |-> dispatched, published |-> published,
          delivered |-> <<>>, threw |-> FALSE, logged |-> 0]

\* FireLwcMarkEvent without the call of this.dispatchEvent.
FireLwcMarkEvent_NoDispatch(relay, eventDetail, platform) ==
    LET payload == [selectedTarget |-> eventDetail]
    IN  IF platform.publish = "throws"
        THEN [relay EXCEPT !.logged = @ + 1]
        ELSE [relay EXCEPT !.published = Append(@, payload),
                           !.delivered = Append(@, payload)]

\* fireLwcMarkEvent(eventDetail)
FireLwcMarkEvent(relay, eventDetail, platform) ==
    IF platform.dispatchEvent = "throws" THEN [relay EXCEPT !.threw = TRUE]
    ELSE LET r1 == [relay EXCEPT !.dispatched = Append(@, eventDetail)]
             payload == [selectedTarget |-> eventDetail]
         IN  IF platform.publish = "throws"
             THEN [r1 EXCEPT !.logged = @ + 1]
             ELSE [r1 EXCEPT !.published = Append(@, payload),
                             !.delivered = Append(@, payload)]

\* onMarksSelection(marksEvent): the relay after the call and the state of
\* the promise the async method returns.
OnMarksSelection(relay, marksEvent, platform) ==
    IF marksEvent.getViz = "throws" \/ marksEvent.getName = "throws"
    THEN [relay |-> relay, promise |-> "rejected"]
    ELSE LET r == FireLwcMarkEvent(relay, RenameTarget(marksEvent.name), platform)
         IN  IF r.threw
             THEN [relay |-> [r EXCEPT !.threw = FALSE, !.logged = @ + 1],
                   promise |-> "fulfilled"]
             ELSE [relay |-> r, promise |-> "fulfilled"]

\* LmsSubscriberWebComponent.handleMessage(message)
HandleMessage(target, message) == Str(message.selectedTarget)

\* LmsSubscriberWebComponent.subscribeToMessageChannel(): subscribe() registers
\* a new subscription on the channel and returns it.
SubscribeToMessageChannel(sub) ==
    [sub EXCEPT !.subscription = [t |-> "object", id |-> sub.mounts + 1],
                !.busSubs = @ \cup {sub.mounts + 1}]

\* The release the comment at the declaration of messageContext expects of
\* the platform: every subscription made with the component's context is
\* removed from the channel.
ReleaseMessageContext(sub) ==
    [sub EXCEPT !.busSubs = {}]

Sub == [subscription |-> subscription, busSubs |-> busSubs, mounts |-> mounts]

\* The labels of the buttons a click on the publisher component can come from.
ButtonLabels == {"Anything"}

\* The click events given to the publisher component.
ClickEvents == [target : [label : ButtonLabels]]

\* LmsPublisherWebComponent.handleClick(event): the channel after the call;
\* a failure of publish leaves the method.
HandleClick(relay, event, publish) ==
    LET selectedTargetValue == event.target.label
        payload == [selectedTarget |-> selectedTargetValue]
    IN  IF publish = "throws" THEN [relay EXCEPT !.threw = TRUE]
        ELSE [relay EXCEPT !.published = Append(@, payload),
                           !.delivered = Append(@, payload)]


(***************************************************************************)
(* The state machine.                                                      *)
(***************************************************************************)
WireResults ==
    {[error |-> Undef, data |-> Undef]}
      \cup {[error |-> [t |-> "object", text |-> m], data |-> Undef] : m \in ErrorTexts}
      \cup {[error |-> Undef,
             data |-> [t |-> "object", fields |-> [f \in {"Account.Region"} |-> v]]] :
               v \in FieldValues}
      \cup {[error |-> Undef, data |-> [t |-> "object", fields |-> [f \in {} |-> Undef]]]}

\* getFieldValue(data, field)
GetFieldValue(data, field) ==
    IF field.t = "string" /\ field.s \in DOMAIN data.fields
    THEN data.fields[field.s] ELSE Undef

\* reduceErrors(error), as it reads in the message
ReduceErrors(error) == error.text

Init ==
    /\ cfg \in Configs
    /\ userAgent \in UserAgents
    /\ offsetWidth \in OffsetWidths
    /\ viz = Undef
    /\ advancedFilterValue = Undef
    /\ errorMessage = Undef
    /\ isLibLoaded = FALSE
    /\ pc = "constructed"
    /\ connected = FALSE
    /\ loadState = "none"
    /\ templ = "none"
    /\ containerHeight = Undef
    /\ vizCount = 0
    /\ listeners = 0
    /\ dispatched = <<>>
    /\ published = <<>>
    /\ subscription = Null
    /\ selectedTarget = Undef
    /\ subConnected = FALSE
    /\ busSubs = {}
    /\ mounts = 0
    /\ clicks = 0
    /\ last = [op |-> "constructor", input |-> Undef, made |-> 0, promise |-> "none"]

\* The component becomes what a method left of `self`.
Becomes(self) ==
    /\ viz' = self.viz
    /\ advancedFilterValue' = self.advancedFilterValue
    /\ errorMessage' = self.errorMessage
    /\ isLibLoaded' = self.isLibLoaded
    /\ templ' = self.templ
    /\ containerHeight' = self.containerHeight
    /\ vizCount' = self.vizCount
    /\ listeners' = self.listeners

\* connectedCallback(), up to its await: loadScript is called.
ConnectedCallback ==
    /\ pc = "constructed"
    /\ connected' = TRUE
    /\ loadState' = "pending"
    /\ pc' = "render"
    /\ last' = [op |-> "connectedCallback", input |-> Undef, made |-> 0, promise |-> "pending"]
    /\ UNCHANGED <<vizVars, relayVars, subVars, selectedTarget, envVars, clicks>>

\* render(), called by the framework on insertion and on every rerender.
RenderTemplate ==
    /\ connected
    /\ pc \in {"render", "idle"}
    /\ templ' = Render(Self)
    /\ pc' = "renderedCallback"
    /\ last' = [op |-> "render", input |-> Undef, made |-> 0, promise |-> "none"]
    /\ UNCHANGED <<viz, advancedFilterValue, errorMessage, isLibLoaded,
                   containerHeight, vizCount, listeners, connected, loadState,
                   relayVars, subVars, selectedTarget, envVars, clicks>>

\* renderedCallback(), called by the framework after each render().
RenderedCallback ==
    /\ pc = "renderedCallback"
    /\ \E rnd \in RandomDraws(userAgent) :
         LET after == RenderViz(Self, rnd) IN
         /\ after.vizCount <= MaxViz
         /\ Becomes(after)
         /\ last' = [op |-> "renderedCallback", input |-> Undef,
                     made |-> after.vizCount - vizCount,
                     promise |-> IF after.threw THEN "threw" ELSE "none"]
    /\ pc' = "idle"
    /\ UNCHANGED <<connected, loadState, relayVars, subVars, selectedTarget, envVars, clicks>>

\* LoadScriptResolved without the call of renderViz.
LoadScriptResolved_NoRender ==
    /\ pc = "idle"
    /\ loadState = "pending"
    /\ Becomes([Self EXCEPT !.isLibLoaded = TRUE])
    /\ last' = [op |-> "loadScriptResolved", input |-> Undef, made |-> 0,
                promise |-> "fulfilled"]
    /\ loadState' = "fulfilled"
    /\ UNCHANGED <<pc, connected, relayVars, subVars, selectedTarget, envVars, clicks>>

\* connectedCallback(), after its await, when loadScript resolves.
LoadScriptResolved ==
    /\ pc = "idle"
    /\ loadState = "pending"
    /\ \E rnd \in RandomDraws(userAgent) :
         LET after == RenderViz([Self EXCEPT !.isLibLoaded = TRUE], rnd) IN
         /\ after.vizCount <= MaxViz
         /\ Becomes(after)
         /\ last' = [op |-> "loadScriptResolved", input |-> Undef,
                     made |-> after.vizCount - vizCount,
                     promise |-> IF after.threw THEN "rejected" ELSE "fulfilled"]
    /\ loadState' = "fulfilled"
    /\ UNCHANGED <<pc, connected, relayVars, subVars, selectedTarget, envVars, clicks>>

\* connectedCallback(), when loadScript rejects: the await throws and the
\* rest of the method is skipped.
LoadScriptRejected ==
    /\ pc = "idle"
    /\ loadState = "pending"
    /\ loadState' = "rejected"
    /\ last' = [op |-> "loadScriptRejected", input |-> Undef, made |-> 0, promise |-> "rejected"]
    /\ UNCHANGED <<pc, connected, vizVars, relayVars, subVars, selectedTarget, envVars, clicks>>

\* GetRecord without the test for an undefined field value.
GetRecord_NoUndefinedCheck(result) ==
    LET self == Self IN
    IF Truthy(result.data)
    THEN LET s1 == [self EXCEPT !.advancedFilterValue =
                       GetFieldValue(result.data, self.cfg.sfAdvancedFilter)]
         IN  {RenderViz(s1, rnd) : rnd \in RandomDraws(self.userAgent)}
    ELSE IF Truthy(result.error)
    THEN {[self EXCEPT !.errorMessage =
              Str("Failed to retrieve record data: " \o ReduceErrors(result.error))]}
    ELSE {self}

\* getRecord({error, data}), the wire callback.
GetRecord(result) ==
    LET self == Self IN
    IF Truthy(result.data)
    THEN LET s1 == [self EXCEPT !.advancedFilterValue =
                       GetFieldValue(result.data, self.cfg.sfAdvancedFilter)]
         IN  IF s1.advancedFilterValue = Undef
             THEN {[s1 EXCEPT !.errorMessage =
                      Str("Failed to retrieve value for field "
                          \o JsString(self.cfg.sfAdvancedFilter))]}
             ELSE {RenderViz(s1, rnd) : rnd \in RandomDraws(self.userAgent)}
    ELSE IF Truthy(result.error)
    THEN {[self EXCEPT !.errorMessage =
              Str("Failed to retrieve record data: " \o ReduceErrors(result.error))]}
    ELSE {self}

\* The wire adapter calls getRecord once recordId and the field are defined.
WireGetRecord ==
    /\ pc = "idle"
    /\ cfg.recordId # Undef
    /\ cfg.sfAdvancedFilter # Undef
    /\ \E result \in WireResults :
         \E after \in GetRecord(result) :
           /\ after.vizCount <= MaxViz
           /\ Becomes(after)
           /\ last' = [op |-> "getRecord", input |-> result,
                       made |-> after.vizCount - vizCount,
                       promise |-> IF after.threw THEN "threw" ELSE "none"]
    /\ UNCHANGED <<pc, connected, loadState, relayVars, subVars, selectedTarget, envVars, clicks>>

\* The host removes the component from the document.
Disconnected ==
    /\ pc = "idle"
    /\ connected
    /\ connected' = FALSE
    /\ last' = [op |-> "disconnected", input |-> Undef, made |-> 0, promise |-> "none"]
    /\ UNCHANGED <<pc, loadState, vizVars, relayVars, subVars, selectedTarget, envVars, clicks>>

\* The library calls the listener of a viz with a selection event.
MarksSelection ==
    /\ pc = "idle"
    /\ listeners >= 1
    /\ Len(dispatched) < MaxEvents
    /\ \E marksEvent \in MarksEvents, platform \in Platforms :
         LET r == OnMarksSelection(Relay, marksEvent, platform) IN
         /\ dispatched' = r.relay.dispatched
         /\ published' = r.relay.published
         /\ selectedTarget' =
              IF r.relay.delivered # <<>> /\ busSubs # {}
              THEN HandleMessage(selectedTarget, r.relay.delivered[1])
              ELSE selectedTarget
         /\ last' = [op |-> "onMarksSelection",
                     input |-> [marksEvent |-> marksEvent, platform |-> platform],
                     made |-> 0, promise |-> r.promise]
    /\ UNCHANGED <<pc, connected, loadState, vizVars, subVars, envVars, clicks>>

\* A click on a button of the publisher component.
PublisherClick ==
    /\ clicks < MaxClicks
    /\ clicks' = clicks + 1
    /\ \E event \in ClickEvents, publish \in {"ok", "throws"} :
         LET r == HandleClick(Relay, event, publish) IN
         /\ published' = r.published
         /\ selectedTarget' =
              IF r.delivered # <<>> /\ busSubs # {}
              THEN HandleMessage(selectedTarget, r.delivered[1])
              ELSE selectedTarget
         /\ last' = [op |-> "handleClick",
                     input |-> [event |-> event, publish |-> publish],
                     made |-> 0,
                     promise |-> IF r.threw THEN "threw" ELSE "none"]
    /\ UNCHANGED <<pc, connected, loadState, vizVars, dispatched, subVars, envVars>>

\* LmsSubscriberWebComponent.connectedCallback()
SubConnectedCallback ==
    /\ ~subConnected
    /\ mounts < MaxMounts
    /\ LET after == SubscribeToMessageChannel(Sub) IN
         /\ subscription' = after.subscription
         /\ busSubs' = after.busSubs
    /\ mounts' = mounts + 1
    /\ subConnected' = TRUE
    /\ UNCHANGED <<pc, connected, loadState, vizVars, relayVars, selectedTarget, envVars, clicks, last>>

\* The host removes the subscriber from the document.  The component
\* defines no disconnectedCallback and never calls unsubscribe: no code of
\* it runs and this.subscription keeps its value.  Whether the subscription
\* leaves the channel is the platform's doing: it either releases the
\* component's message context or leaves the subscription active.
SubDisconnected ==
    /\ subConnected
    /\ \E released \in BOOLEAN :
         busSubs' = IF released THEN ReleaseMessageContext(Sub).busSubs ELSE busSubs
    /\ subConnected' = FALSE
    /\ UNCHANGED <<pc, connected, loadState, vizVars, relayVars, selectedTarget,
                   envVars, clicks, subscription, mounts, last>>

\* The steps of the TableauViz component alone.
Next ==
    \/ ConnectedCallback
    \/ RenderTemplate
    \/ RenderedCallback
    \/ LoadScriptResolved
    \/ LoadScriptRejected
    \/ WireGetRecord
    \/ Disconnected

Spec == Init /\ [][Next]_vars

\* The relay and the subscriber, behind a TableauViz whose configuration
\* is valid.
RelayConfigs ==
    {c \in Configs :
        /\ c.vizUrl = UrlStr(<<"https:", "//", "t.example", "/", "views", "/", "a">>)
        /\ c.filterOnRecordId = Bool(TRUE)
        /\ c.objectApiName = Str("Account")
        /\ c.recordId = Str("001x")
        /\ c.tabAdvancedFilter = Undef
        /\ c.sfAdvancedFilter = Undef}

InitRelay ==
    /\ Init
    /\ cfg \in RelayConfigs
    /\ userAgent = <<"Mozilla/5.0", " ", "Chrome">>
    /\ offsetWidth = 800

\* No source filter field is configured, so the wire adapter never calls
\* getRecord.
NextRelay ==
    \/ ConnectedCallback
    \/ RenderTemplate
    \/ RenderedCallback
    \/ LoadScriptResolved
    \/ LoadScriptRejected
    \/ Disconnected
    \/ MarksSelection
    \/ PublisherClick
    \/ SubConnectedCallback
    \/ SubDisconnected

SpecRelay == InitRelay /\ [][NextRelay]_vars


(***************************************************************************)
(* Properties.                                                             *)
(***************************************************************************)
\* Whether searchParams holds a parameter of this name and value.
HasParam(params, name, value) ==
    \E i \in 1..Len(params) : params[i] = <<name, value>>

HasParamNamed(params, name) ==
    \E i \in 1..Len(params) : params[i][1] = name

\* The step just taken constructed a viz.
JustInstantiated == last.made = 1

\* C1: once a viz has been instantiated and the inputs are unchanged, a
\* further callback constructs no viz and attaches no listener.
C1_RenderedIsNoOp ==
    [][(vizCount >= 1 /\ advancedFilterValue' = advancedFilterValue)
          => (vizCount' = vizCount /\ listeners' = listeners)]_vars

\* C2: after loadScript rejects the component shows the error template,
\* with an error message set, and has constructed no viz.
C2_LoadFailureIsError ==
    loadState = "rejected"
      => /\ Truthy(errorMessage)
         /\ Render(Self) = "templateError"
         /\ vizCount = 0

\* The component was inserted and then removed from the document.
Destroyed == ~connected /\ pc # "constructed"

\* C3: once the component is destroyed, no late completion changes its
\* fields, touches the container or constructs a viz.
C3_NoLateMutation ==
    [][Destroyed
          => UNCHANGED <<isLibLoaded, advancedFilterValue, errorMessage, viz,
                         vizCount, containerHeight, listeners>>]_vars

\* The last getRecord call reported an error, or delivered a record on
\* which the source filter field has no value.
FailedResolution ==
    /\ last.op = "getRecord"
    /\ Truthy(cfg.sfAdvancedFilter)
    /\ \/ ~Truthy(last.input.data) /\ Truthy(last.input.error)
       \/ /\ Truthy(last.input.data)
          /\ cfg.sfAdvancedFilter.s \notin DOMAIN last.input.data.fields

\* C4: a resolution that fails, or that finds no value for the field, leaves
\* an error message set, the error template shown, and constructs no viz.
C4_FailedResolutionIsError ==
    FailedResolution
      => /\ errorMessage.t = "string" /\ errorMessage.s # ""
         /\ Render(Self) = "templateError"
         /\ last.made = 0

C4_Witness ==
    /\ FailedResolution
    /\ Truthy(last.input.data)
    /\ isLibLoaded
    /\ UrlOk(cfg.vizUrl) /\ Truthy(cfg.tabAdvancedFilter)

\* C5: whatever fails while a selection event is handled, the promise of
\* the handler is fulfilled: the failure is caught in the relay.
C5_HandlerNeverRejects ==
    last.op = "onMarksSelection" => last.promise = "fulfilled"

\* C6: the subscriber has at most one subscription active on the channel,
\* and none while it is out of the document.  It holds exactly as far as
\* the platform releases the message context at every removal.
C6_AtMostOneSubscription ==
    /\ Cardinality(busSubs) <= 1
    /\ ~subConnected => busSubs = {}

\* The scheme of the string given as vizUrl is https (in any case).
UsesHttps(v) ==
    /\ v.t = "string"
    /\ Len(v.toks) >= 1
    /\ v.toks[1] \in {"https:", "HTTPS:"}

\* C7: with a vizUrl that is not https, validateInputs returns false and
\* sets an error message, and no viz is ever constructed.
C7_NonHttpsFails ==
    ~UsesHttps(cfg.vizUrl)
      => /\ ~ValidateInputs(Self).ret
         /\ Truthy(ValidateInputs(Self).self.errorMessage)
         /\ vizCount = 0 /\ viz = Undef
         /\ last.op \in {"renderedCallback", "loadScriptResolved"}
              => Truthy(errorMessage)

C7_Witness ==
    /\ cfg.vizUrl = UrlStr(<<"http:", "//", "t.example", "/", "views", "/", "a">>)
    /\ cfg.tabAdvancedFilter = Undef /\ cfg.sfAdvancedFilter = Undef
    /\ last.op = "loadScriptResolved"
    /\ isLibLoaded
    /\ errorMessage = Str("Invalid URL. Make sure the link to the Tableau view is using HTTPS.")

\* Exactly one of the two filter fields is set.
ExactlyOneFilterField ==
    (cfg.tabAdvancedFilter \in {Undef, Str("")}) # (cfg.sfAdvancedFilter \in {Undef, Str("")})

\* C8: with exactly one of the two filter fields set, validateInputs returns
\* false and sets an error message, and no viz is ever constructed.
C8_OneFilterFieldFails ==
    ExactlyOneFilterField
      => /\ ~ValidateInputs(Self).ret
         /\ Truthy(ValidateInputs(Self).self.errorMessage)
         /\ vizCount = 0 /\ viz = Undef
         /\ last.op \in {"renderedCallback", "loadScriptResolved"}
              => Truthy(errorMessage)

C8_Witness ==
    /\ ExactlyOneFilterField
    /\ Truthy(cfg.tabAdvancedFilter)
    /\ UsesHttps(cfg.vizUrl) /\ UrlOk(cfg.vizUrl)
    /\ last.op = "loadScriptResolved"
    /\ isLibLoaded
    /\ Truthy(errorMessage)

\* A resolved value that is defined and not empty.
DefinedNonEmpty(v) == v \notin {Undef, Null, Str("")}

\* C9: a viz is constructed with the advanced-filter parameter exactly when
\* both filter fields are set and the resolved value is defined and not empty.
C9_AdvancedFilterRule ==
    JustInstantiated
      => (HasParamNamed(viz.searchParams, JsString(cfg.tabAdvancedFilter))
            <=> /\ Truthy(cfg.tabAdvancedFilter)
                /\ Truthy(cfg.sfAdvancedFilter)
                /\ DefinedNonEmpty(advancedFilterValue))

\* filterOnRecordId and objectApiName are both set.
RecordIdFilterSet ==
    cfg.filterOnRecordId = Bool(TRUE) /\ cfg.objectApiName \notin {Undef, Str("")}

\* C10: a viz is constructed with the parameter "<objectApiName> ID", valued
\* with the record id, exactly when filterOnRecordId and objectApiName are set.
C10_RecordIdFilterRule ==
    JustInstantiated
      => /\ RecordIdFilterSet
              => /\ HasParam(viz.searchParams,
                             JsString(cfg.objectApiName) \o " ID", JsString(cfg.recordId))
                 /\ cfg.objectApiName = Str("Account") /\ cfg.recordId = Str("001x")
                      => HasParam(viz.searchParams, "Account ID", "001x")
         /\ ~RecordIdFilterSet
              => \A i \in 1..Len(viz.searchParams) :
                    viz.searchParams[i][1] \notin {"Account ID", "undefined ID", " ID"}

C10_Witness ==
    /\ JustInstantiated
    /\ cfg.filterOnRecordId = Bool(TRUE)
    /\ cfg.objectApiName = Str("Account")
    /\ cfg.recordId = Str("001x")
    /\ HasParam(viz.searchParams, "Account ID", "001x")


\* The values of the parameters of this name, in their order.
ParamValues(params, name) ==
    SelectSeq([i \in 1..Len(params) |-> IF params[i][1] = name THEN params[i][2] ELSE ""],
              LAMBDA v : v # "")

\* C11: every constructed viz has one :size parameter, whose value is the
\* width of the container, a comma and the configured height.
C11_SizeParameter ==
    JustInstantiated
      => /\ Len(ParamValues(viz.searchParams, ":size")) = 1
         /\ offsetWidth = 800 /\ cfg.height = Num(600)
              => ParamValues(viz.searchParams, ":size") = <<"800,600">>
         /\ offsetWidth = 1024 /\ cfg.height = Num(600)
              => ParamValues(viz.searchParams, ":size") = <<"1024,600">>
         /\ containerHeight = Str("600px")

C11_Witness ==
    /\ JustInstantiated
    /\ offsetWidth = 800
    /\ cfg.height = Num(600)
    /\ HasParam(viz.searchParams, ":size", "800,600")
    /\ Len(viz.url) >= 11
    /\ JoinTokens(SubSeq(viz.url, 1, 11)) = "https://t.example/views/a?%3Asize=800%2C600"

\* The names of the parameters, in their order.
ParamNames(params) == [i \in 1..Len(params) |-> params[i][1]]

MobileParamNames == <<":use_rt", ":client_id", ":device_id", ":device_name">>

\* The groups of parameters present in params, put in the order size,
\* record-id filter, advanced filter, mobile parameters.
NamesInFixedOrder(params) ==
    <<":size">>
      \o (IF HasParamNamed(params, "Account ID") THEN <<"Account ID">> ELSE <<>>)
      \o (IF HasParamNamed(params, "Region") THEN <<"Region">> ELSE <<>>)
      \o (IF HasParamNamed(params, ":use_rt") THEN MobileParamNames ELSE <<>>)

\* C12: the parameters of every constructed viz are in the order size,
\* record-id filter, advanced filter, mobile parameters.
C12_ParameterOrder ==
    JustInstantiated
      => ParamNames(viz.searchParams) = NamesInFixedOrder(viz.searchParams)

C12_Witness ==
    /\ JustInstantiated
    /\ ParamNames(viz.searchParams)
         = <<":size", "Account ID", "Region">> \o MobileParamNames


(***************************************************************************)
(* The static methods, called on their own: checkForMobileApp on a URL     *)
(* and a user agent, generateRandomDeviceId on the outcomes of the random  *)
(* sources.                                                                *)
(***************************************************************************)
StaticUserAgents ==
    { <<"Mozilla/5.0", " ", "Chrome">>,
      <<"salesforcemobilesdk", "/", "9.0", " ", "iPhone", " ", "uid_", "a", "1">>,
      <<"SalesforceMobileSDK", "/", "9.0", " ", "iPhone", " ", "uid_", "a", "1", "-", "b", " ", "Hybrid">>,
      <<"SalesforceMobileSDK", "/", "9.0", " ", "iPad", " ", "iPhone", " ", "uid_", "a", "_", "1">>,
      <<"SalesforceMobileSDK", "/", "9.0", " ", "iPhone", " ", "uid_", "a", "1", "|", "b", " ", "Hybrid">>,
      <<"SalesforceMobileSDK", "/", "9.0", " ", "iPhone", " ", "uid_", "|", "b">>,
      <<"SalesforceMobileSDK", "/", "9.0", " ", "uid_", " ", "uid_", "b", "-", "1">>,
      <<"SalesforceMobileSDK", "/", "9.0", " ", "uid_", " ", "iPhone">>,
      <<"SalesforceMobileSDK", "/", "9.0", " ", "Android">>,
      <<"SalesforceMobileSDK">> }

StaticRandomSources ==
    {Draws(b, m, y) : b \in {0, 9, 10, 15, 16, 255}, m \in {0, 37}, y \in 0..3}

\* The URLs given to checkForMobileApp: with and without base parameters.
StaticVizUrls ==
    LET u == NewURL(UrlStr(<<"https:", "//", "t.example", "/", "views", "/", "a">>))
    IN  {u, SearchParamsAppend(SearchParamsAppend(u, ":size", Str("800,600")),
                               "Account ID", Str("001x"))}

\* A call of the static method checkForMobileApp.
CallCheckForMobileApp ==
    /\ \E ua \in StaticUserAgents, vizToLoad \in StaticVizUrls :
         \E rnd \in (IF DeviceIdMatch(ua).matched THEN {Draws(0, 0, 0)}
                     ELSE StaticRandomSources) :
           last' = [op |-> "checkForMobileApp",
                    input |-> [userAgent |-> ua, vizToLoad |-> vizToLoad, rnd |-> rnd,
                               after |-> CheckForMobileApp(vizToLoad, ua, rnd)],
                    made |-> 0, promise |-> "none"]
    /\ UNCHANGED <<pc, connected, loadState, vizVars, relayVars, subVars,
                   selectedTarget, envVars, clicks>>

\* A call of the static method generateRandomDeviceId.
CallGenerateRandomDeviceId ==
    /\ \E rnd \in StaticRandomSources :
         last' = [op |-> "generateRandomDeviceId",
                  input |-> [rnd |-> rnd, symbols |-> DeviceIdSymbols(rnd),
                             returned |-> GenerateRandomDeviceId(rnd)],
                  made |-> 0, promise |-> "none"]
    /\ UNCHANGED <<pc, connected, loadState, vizVars, relayVars, subVars,
                   selectedTarget, envVars, clicks>>

NextStatic ==
    \/ CallCheckForMobileApp
    \/ CallGenerateRandomDeviceId

SpecStatic == InitRelay /\ [][NextStatic]_vars


\* The user agent holds the marker of the Salesforce mobile application.
HasMobileMarker(ua) == \E i \in 1..Len(ua) : ua[i] = "SalesforceMobileSDK"

\* C13: checkForMobileApp leaves the URL as it is when the user agent has
\* no marker; with the marker it appends, after the parameters already
\* there, :use_rt=y, :client_id=TableauVizLWC, :device_id and :device_name.
C13_MobileParameters ==
    last.op = "checkForMobileApp"
      => LET before == last.input.vizToLoad.params
             after == last.input.after.params
         IN  IF ~HasMobileMarker(last.input.userAgent)
             THEN last.input.after = last.input.vizToLoad
             ELSE /\ Len(after) = Len(before) + 4
                  /\ SubSeq(after, 1, Len(before)) = before
                  /\ ParamNames(SubSeq(after, Len(before) + 1, Len(after)))
                       = MobileParamNames
                  /\ after[Len(before) + 1][2] = "y"
                  /\ after[Len(before) + 2][2] = "TableauVizLWC"

C13_Witness ==
    /\ last.op = "checkForMobileApp"
    /\ HasMobileMarker(last.input.userAgent)
    /\ Len(last.input.vizToLoad.params) = 2
    /\ Len(last.input.after.params) = 6

\* The match of uid_([\w-]+): the longest run of word characters and
\* hyphens after the first "uid_" that is followed by one.
WordOrHyphen == WordChars \cup {"-"}

UidToken(ua) ==
    LET starts == {i \in 1..(Len(ua) - 1) :
                      ua[i] = "uid_" /\ ua[i + 1] \in WordOrHyphen}
    IN  IF starts = {} THEN [matched |-> FALSE, group |-> ""]
        ELSE LET i == MinOf(starts)
                 ends == {j \in (i + 1)..Len(ua) :
                             /\ \A k \in (i + 1)..j : ua[k] \in WordOrHyphen
                             /\ (j = Len(ua) \/ ua[j + 1] \notin WordOrHyphen)}
             IN  [matched |-> TRUE,
                  group |-> JoinTokens(SubSeq(ua, i + 1, MinOf(ends)))]

\* C14: on a mobile user agent the device id is the text uid_([\w-]+)
\* captures when there is a uid_ token, and a generated id only otherwise.
C14_DeviceIdFromUid ==
    (last.op = "checkForMobileApp" /\ HasMobileMarker(last.input.userAgent))
      => ParamValues(last.input.after.params, ":device_id")
           = <<IF UidToken(last.input.userAgent).matched
               THEN UidToken(last.input.userAgent).group
               ELSE GenerateRandomDeviceId(last.input.rnd)>>

HexDigits ==
    {"0", "1", "2", "3", "4", "5", "6", "7", "8", "9", "a", "b", "c", "d", "e", "f"}

\* C15: a generated id has 36 characters: hyphens at positions 9, 14, 19 and
\* 24, 4 at position 15, one of 8, 9, a, b at position 20 and a lower-case
\* hexadecimal digit everywhere else.
C15_DeviceIdShape ==
    last.op = "generateRandomDeviceId"
      => LET id == last.input.symbols IN
         /\ Len(id) = 36
         /\ \A i \in 1..36 :
              CASE i \in {9, 14, 19, 24} -> id[i] = "-"
                [] i = 15 -> id[i] = "4"
                [] i = 20 -> id[i] \in {"8", "9", "a", "b"}
                [] OTHER -> id[i] \in HexDigits
         /\ last.input.returned = JoinTokens(id)

C15_Witness ==
    /\ last.op = "generateRandomDeviceId"
    /\ last.input.symbols[1] = "f"
    /\ last.input.symbols[2] = "f"
    /\ last.input.symbols[20] = "b"
    /\ last.input.returned = "ffffffff-ffff-4fff-bfff-ffffffffffff"


\* The last callback was the selection handler, and nothing it called threw.
HandledWithoutFailure ==
    /\ last.op = "onMarksSelection"
    /\ last.input.marksEvent.getViz = "ok"
    /\ last.input.marksEvent.getName = "ok"
    /\ last.input.platform.dispatchEvent = "ok"
    /\ last.input.platform.publish = "ok"

\* The label of a worksheet name.
LabelOf(name) ==
    IF name = "IBDaysOfBacklog (2)" THEN "Inbound"
    ELSE IF name = "BPDaysOfBacklog" THEN "Breakpack"
    ELSE IF name = "FC.DOB" THEN "Fullcase"
    ELSE name

\* The step is a call of the selection handler that published.
RelayPublished ==
    /\ last'.op = "onMarksSelection"
    /\ published' # published

\* C16: the payload published for a selection event is {selectedTarget:
\* label}, the label of the event's worksheet name, or the name itself when
\* it has no label; a subscribed component receives what is published.
C16_PublishedPayload ==
    /\ [](HandledWithoutFailure
            => /\ published # <<>>
               /\ published[Len(published)]
                    = [selectedTarget |-> LabelOf(last.input.marksEvent.name)]
               /\ "BPDaysOfBacklog" = last.input.marksEvent.name
                    => published[Len(published)] = [selectedTarget |-> "Breakpack"]
               /\ "Foo" = last.input.marksEvent.name
                    => published[Len(published)] = [selectedTarget |-> "Foo"])
    /\ [][RelayPublished
            => /\ published' = Append(published,
                     [selectedTarget |-> LabelOf(last'.input.marksEvent.name)])
               /\ busSubs # {}
                    => selectedTarget' = Str(LabelOf(last'.input.marksEvent.name))]_vars
    /\ [](selectedTarget \in {Undef} \cup {Str(published[i].selectedTarget) :
                                               i \in 1..Len(published)})

C16_Witness ==
    /\ HandledWithoutFailure
    /\ last.input.marksEvent.name = "BPDaysOfBacklog"
    /\ published = <<[selectedTarget |-> "Anything"], [selectedTarget |-> "Breakpack"]>>
    /\ selectedTarget = Str("Breakpack")

\* C17: every selection event the relay handles gives a local event and a
\* publication whose selectedTarget is the detail of the local event, the
\* label of the event's worksheet name; the relay never publishes without
\* raising, in the same call, the local event with that label.
C17_BothWithSameDetail ==
    /\ [](HandledWithoutFailure
            => /\ dispatched # <<>> /\ published # <<>>
               /\ dispatched[Len(dispatched)] = LabelOf(last.input.marksEvent.name)
               /\ published[Len(published)].selectedTarget = dispatched[Len(dispatched)])
    /\ [][RelayPublished
            => /\ dispatched' = Append(dispatched, LabelOf(last'.input.marksEvent.name))
               /\ published' = Append(published,
                     [selectedTarget |-> dispatched'[Len(dispatched')]])]_vars

C17_Witness ==
    /\ HandledWithoutFailure
    /\ Len(dispatched) = 2
    /\ dispatched[2] = "Inbound"
    /\ published = <<[selectedTarget |-> "Anything"], [selectedTarget |-> "Inbound"]>>


\* C18: a viz is constructed only in a step that ends with the library
\* loaded, the inputs valid, no error message set and, when a source filter
\* field is configured, its value resolved.
C18_InstantiatedOnlyWhenReady ==
    /\ JustInstantiated
         => /\ isLibLoaded
            /\ loadState = "fulfilled"
            /\ ValidateInputs(Self).ret
            /\ ~Truthy(errorMessage)
            /\ Truthy(cfg.sfAdvancedFilter) => advancedFilterValue # Undef
    /\ vizCount >= 1
         => /\ isLibLoaded
            /\ UrlError(cfg.vizUrl).thrown = FALSE
            /\ ~FilterPairMismatch(cfg)

C18_Witness ==
    /\ JustInstantiated
    /\ last.op = "getRecord"
    /\ cfg.sfAdvancedFilter = Str("Account.Region")
    /\ advancedFilterValue = Str("West")
    /\ isLibLoaded

\* C19: with valid inputs and a source filter field, once the library is
\* loaded and a defined value is resolved (and no resolution has failed,
\* so that no error message is set), a viz has been constructed: the later
\* of the two completions constructs it, in either order.
C19_BothCompletionsGiveViz ==
    (/\ ValidateInputs(Self).ret
     /\ Truthy(cfg.sfAdvancedFilter)
     /\ isLibLoaded
     /\ advancedFilterValue # Undef
     /\ ~Truthy(errorMessage))
      => vizCount >= 1 /\ viz # Undef

C19_Witness ==
    /\ last.op = "loadScriptResolved"
    /\ JustInstantiated
    /\ cfg.sfAdvancedFilter = Str("Account.Region")
    /\ advancedFilterValue = Str("West")
    /\ vizCount = 1

\* C20: once an error message is set, every step leaves one set, and
\* constructs no viz.
C20_ErrorIsAbsorbing ==
    [][Truthy(errorMessage)
          => /\ Truthy(errorMessage')
             /\ vizCount' = vizCount
             /\ viz' = viz
             /\ listeners' = listeners]_vars

\* A defined value delivered after a failed resolution: no viz is made.
C20_Witness ==
    /\ last.op = "getRecord"
    /\ Truthy(last.input.data)
    /\ advancedFilterValue = Str("West")
    /\ ValidateInputs(Self).ret
    /\ isLibLoaded
    /\ errorMessage = Str("Failed to retrieve value for field Account.Region")
    /\ Render(Self) = "templateError"
    /\ vizCount = 0

=============================================================================
